---- MODULE Spec2Model ----
(***************************************************************************)
(* Wordfeud helper (Danish): the word search engine.                       *)
(*                                                                         *)
(* A JavaScript string is modelled as a sequence of characters; each       *)
(* character is a one-symbol string.  The three Danish letters are written *)
(* "AE" (U+00C6), "OE" (U+00D8) and "AA" (U+00C5), their lower-case forms  *)
(* "ae", "oe", "aa".  A Map is a function whose domain is its key set.     *)
(* An absent (undefined) numeric option is <<>>, a present one <<n>>; an   *)
(* absent string option is "" (falsy in the source in the same way).       *)
(***************************************************************************)
EXTENDS Integers, Sequences, FiniteSets, TLC

VARIABLES
  wordlistFile,    \* the JSON array of words the loader fetched
  wordlist,        \* wordlistLoader.js: the loaded dictionary (upper-cased, no duplicates)
  workerWordlist,  \* searchWorker.js: the worker's copy of the dictionary
  lettersString,   \* the rack string of the search request
  filters,         \* the filter configuration of the search request
  mainResponse,    \* <<>> or <<r>>: what searchWords last returned
  workerResponse,  \* <<>> or <<r>>: the searchResult payload the worker last posted
  call,            \* the arguments of a direct call of one engine function
  ret,             \* <<>> or <<v>>: what that call returned
  dom,             \* ui.js: the values of the input elements
  display,         \* ui.js: error message, results section, loading indicator
                   \* and searchButton.disabled
  currentResults,  \* ui.js: let currentResults
  recentSearches,  \* localStorage: the list stored under RECENT_SEARCHES_KEY
  useWorker,       \* ui.js: let useWorker
  searchWorker,    \* ui.js: TRUE when searchWorker holds a Worker object
  pending,         \* ui.js: handleSearch invocations suspended at their await
  clicks,          \* the number of handleSearch invocations so far
  inbox,           \* the messages posted to the worker, in order
  handled,         \* how many of them the worker's listener has processed
  outbox,          \* the searchResult payloads posted by the worker, in order
  delivered        \* how many of them the main thread's listener has processed

engineVars == <<wordlistFile, wordlist, workerWordlist, lettersString, filters, mainResponse,
                workerResponse, call, ret>>

uiVars == <<dom, display, currentResults, recentSearches, useWorker, searchWorker,
            pending, clicks>>

channelVars == <<inbox, handled, outbox, delivered>>

vars == <<engineVars, uiVars, channelVars>>

(***************************************************************************)
(* Bounds of the model                                                     *)
(***************************************************************************)
MaxWordLen == 3
MaxDict == 2
MaxRackLen == 2
MaxPatLen == 2
MaxClicks == 2

(***************************************************************************)
(* Program constants                                                       *)
(***************************************************************************)
DANISH_ALPHABET ==
  <<"A","B","C","D","E","F","G","H","I","J","K","L","M","N","O","P","Q","R",
    "S","T","U","V","W","X","Y","Z","AE","OE","AA">>

LOWER_ALPHABET ==
  <<"a","b","c","d","e","f","g","h","i","j","k","l","m","n","o","p","q","r",
    "s","t","u","v","w","x","y","z","ae","oe","aa">>

WILDCARD_CHARS == {"?", "_", "*", " "}

LETTER_VALUES ==
  [c \in {"A","E","N","R"} |-> 1] @@
  [c \in {"D","L","O","S","T"} |-> 2] @@
  [c \in {"B","F","G","I","K","U"} |-> 3] @@
  [c \in {"H","J","M","P","V","Y","AE","OE","AA"} |-> 4] @@
  [c \in {"C","X"} |-> 8] @@
  [c \in {"Z"} |-> 9]

MinWordLength == 2
MaxWordLength == 15
MaxPatternLength == 50
MaxPatternWildcards == 15
MaxLettersLength == 15
MaxInputLength == 50
MAX_RECENT_SEARCHES == 5

(***************************************************************************)
(* Generic helpers                                                         *)
(***************************************************************************)
Range(s) == {s[i] : i \in DOMAIN s}

RECURSIVE SumSeq(_)
SumSeq(s) == IF s = <<>> THEN 0 ELSE Head(s) + SumSeq(Tail(s))

RECURSIVE SumFn(_)
SumFn(f) ==
  IF DOMAIN f = {} THEN 0
  ELSE LET k == CHOOSE x \in DOMAIN f : TRUE
       IN f[k] + SumFn([x \in DOMAIN f \ {k} |-> f[x]])

Max0(n) == IF n > 0 THEN n ELSE 0

Min(a, b) == IF a < b THEN a ELSE b

SeqsUpTo(S, n) == UNION {[1..k -> S] : k \in 0..n}

NoDup(s) == \A i, j \in DOMAIN s : i # j => s[i] # s[j]

\* Map.get(k) || 0
Get(m, k) == IF k \in DOMAIN m THEN m[k] ELSE 0

\* indexOf in DANISH_ALPHABET, 0-based, -1 when absent
AlphabetIndex ==
  [c \in Range(DANISH_ALPHABET) |->
     (CHOOSE i \in DOMAIN DANISH_ALPHABET : DANISH_ALPHABET[i] = c) - 1]

IndexOf(ch) == IF ch \in DOMAIN AlphabetIndex THEN AlphabetIndex[ch] ELSE 0 - 1

\* String.prototype.toUpperCase, one character
UpperCase ==
  [c \in Range(LOWER_ALPHABET) |->
     DANISH_ALPHABET[CHOOSE i \in DOMAIN LOWER_ALPHABET : LOWER_ALPHABET[i] = c]]

UpperChar(ch) == IF ch \in DOMAIN UpperCase THEN UpperCase[ch] ELSE ch

toUpperCase(str) == [i \in DOMAIN str |-> UpperChar(str[i])]

\* String.prototype.trim
RECURSIVE TrimLeft(_)
TrimLeft(str) ==
  IF str # <<>> /\ Head(str) = " " THEN TrimLeft(Tail(str)) ELSE str

RECURSIVE TrimRight(_)
TrimRight(str) ==
  IF str # <<>> /\ str[Len(str)] = " "
  THEN TrimRight(SubSeq(str, 1, Len(str) - 1)) ELSE str

trim(str) == TrimRight(TrimLeft(str))

\* replace(/\s+/g, ' ')
RECURSIVE CollapseSpaces(_)
CollapseSpaces(str) ==
  IF Len(str) < 2 THEN str
  ELSE IF str[1] = " " /\ str[2] = " " THEN CollapseSpaces(Tail(str))
  ELSE <<Head(str)>> \o CollapseSpaces(Tail(str))

\* UTF-16 code unit of a character, the key of Array.prototype.sort()
CodeUnit(ch) ==
  CASE ch = " " -> 32
    [] ch = "*" -> 42
    [] ch = "." -> 46
    [] ch = "?" -> 63
    [] ch = "_" -> 95
    [] ch = "AA" -> 197
    [] ch = "AE" -> 198
    [] ch = "OE" -> 216
    [] ch = "aa" -> 229
    [] ch = "ae" -> 230
    [] ch = "oe" -> 248
    [] IndexOf(ch) >= 0 -> 65 + IndexOf(ch)
    [] OTHER -> 97 + IndexOf(UpperChar(ch))

\* a < b as JavaScript strings (code unit order, prefix first)
RECURSIVE StringLess(_, _)
StringLess(a, b) ==
  IF b = <<>> THEN FALSE
  ELSE IF a = <<>> THEN TRUE
  ELSE IF CodeUnit(Head(a)) # CodeUnit(Head(b))
       THEN CodeUnit(Head(a)) < CodeUnit(Head(b))
  ELSE StringLess(Tail(a), Tail(b))

(***************************************************************************)
(* utils.js: input normalisation and the formability checker               *)
(***************************************************************************)
normalizeString(str) ==
  IF str = <<>> THEN <<>> ELSE CollapseSpaces(toUpperCase(trim(str)))

\* the Map built by counting in str the characters of keys
CountChars(str, keys) ==
  [c \in Range(str) \cap keys |-> Cardinality({i \in DOMAIN str : str[i] = c})]

\* the characters that are neither wildcard symbols nor spaces
LetterKeys(str) == (Range(str) \ WILDCARD_CHARS) \ {" "}

\* the characters found in DANISH_ALPHABET
AlphabetKeys(str) == {c \in Range(str) : IndexOf(c) >= 0}

ParseNormalized(normalized) ==
  [letterCounts |->
     CountChars(normalized, LetterKeys(normalized)),
   wildcards |->
     Cardinality({i \in DOMAIN normalized : normalized[i] \in WILDCARD_CHARS})]

parseLetters(str) == ParseNormalized(normalizeString(str))

workerParseLetters(str) ==
  ParseNormalized(CollapseSpaces(toUpperCase(trim(str))))

buildExtraLettersFromPattern(pattern) ==
  IF pattern = <<>> THEN <<>>
  ELSE CountChars(normalizeString(pattern), AlphabetKeys(normalizeString(pattern)))

workerBuildExtraLettersFromPattern(pattern) ==
  IF pattern = <<>> THEN <<>>
  ELSE CountChars(toUpperCase(trim(pattern)), AlphabetKeys(toUpperCase(trim(pattern))))

\* the word's letter counts after the board letters are taken off
SubtractExtras(wordLetters, extraLetters) ==
  [l \in DOMAIN wordLetters |->
     IF l \in DOMAIN extraLetters
     THEN Max0(wordLetters[l] - extraLetters[l])
     ELSE wordLetters[l]]

\* mutant: a short letter costs one wildcard however many copies are missing
WildcardsNeededOnePerLetter(wordLetters, availableLetters) ==
  Cardinality({l \in DOMAIN wordLetters :
                 wordLetters[l] > Get(availableLetters, l)})

WildcardsNeeded(wordLetters, availableLetters) ==
  SumFn([l \in DOMAIN wordLetters |->
           Max0(wordLetters[l] - Get(availableLetters, l))])

\* mutant: the comparison with the wildcard count is strict
FormResultStrict(needed, used, availableWildcards) ==
  [canForm |-> needed < availableWildcards,
   wildcardsUsed |-> IF needed < availableWildcards THEN needed ELSE 0,
   usedUserLetters |-> used]

FormResult(needed, used, availableWildcards) ==
  [canForm |-> needed <= availableWildcards,
   wildcardsUsed |-> IF needed <= availableWildcards THEN needed ELSE 0,
   usedUserLetters |-> used]

canFormWord(word, availableLetters, availableWildcards) ==
  LET wordLetters == CountChars(word, Range(word))
      wildcardsNeeded == WildcardsNeeded(wordLetters, availableLetters)
      usedUserLetters ==
        \/ \E l \in DOMAIN wordLetters : Get(availableLetters, l) > 0
        \/ wildcardsNeeded > 0      \* "Jokers should also count as my letters"
  IN FormResult(wildcardsNeeded, usedUserLetters, availableWildcards)

\* mutant: a letter the board has fully absorbed still counts as a rack letter used
canFormWordWithExtrasCountingAbsorbed(word, availableLetters, availableWildcards, extraLetters) ==
  LET wordLetters ==
        SubtractExtras(CountChars(word, Range(word)), extraLetters)
      wildcardsNeeded == WildcardsNeeded(wordLetters, availableLetters)
      usedUserLetters ==
        \/ \E l \in DOMAIN wordLetters : Get(availableLetters, l) > 0
        \/ wildcardsNeeded > 0
  IN FormResult(wildcardsNeeded, usedUserLetters, availableWildcards)

canFormWordWithExtras(word, availableLetters, availableWildcards, extraLetters) ==
  LET wordLetters ==
        SubtractExtras(CountChars(word, Range(word)), extraLetters)
      wildcardsNeeded == WildcardsNeeded(wordLetters, availableLetters)
      usedUserLetters ==
        \/ \E l \in DOMAIN wordLetters :
              wordLetters[l] # 0 /\ Get(availableLetters, l) > 0
        \/ wildcardsNeeded > 0      \* "Jokers should also count as my letters"
  IN FormResult(wildcardsNeeded, usedUserLetters, availableWildcards)

\* searchWorker.js: called with three arguments, extraLetters = null
workerCanFormWord(word, availableLetters, availableWildcards) ==
  LET wordLetters == CountChars(word, Range(word))
      wildcardsNeeded == WildcardsNeeded(wordLetters, availableLetters)
      usedUserLetters ==
        \E l \in DOMAIN wordLetters : Get(availableLetters, l) > 0
  IN FormResult(wildcardsNeeded, usedUserLetters, availableWildcards)

workerCanFormWordWithExtras(word, availableLetters, availableWildcards, extraLetters) ==
  LET wordLetters ==
        SubtractExtras(CountChars(word, Range(word)), extraLetters)
      wildcardsNeeded == WildcardsNeeded(wordLetters, availableLetters)
      usedUserLetters ==
        \E l \in DOMAIN wordLetters :
           wordLetters[l] # 0 /\ Get(availableLetters, l) > 0
  IN FormResult(wildcardsNeeded, usedUserLetters, availableWildcards)

(***************************************************************************)
(* searchEngine.js / searchWorker.js: filters                              *)
(***************************************************************************)
\* the regex source as a token sequence: "." any one character, ".*" any run,
\* every other token a literal (escaped) character; spaces are dropped
RECURSIVE RegexSource(_)
RegexSource(trimmed) ==
  IF trimmed = <<>> THEN <<>>
  ELSE LET ch == Head(trimmed)
       IN IF ch = "." THEN <<".">> \o RegexSource(Tail(trimmed))
          ELSE IF ch = "*" THEN <<".*">> \o RegexSource(Tail(trimmed))
          ELSE IF ch = " " THEN RegexSource(Tail(trimmed))
          ELSE <<ch>> \o RegexSource(Tail(trimmed))

\* mutant: the regular expression is not anchored at the end of the word
RECURSIVE RegexTestPrefix(_, _)
RegexTestPrefix(source, word) ==
  IF source = <<>> THEN TRUE
  ELSE IF Head(source) = ".*"
       THEN \/ RegexTestPrefix(Tail(source), word)
            \/ word # <<>> /\ RegexTestPrefix(source, Tail(word))
  ELSE /\ word # <<>>
       /\ Head(source) = "." \/ Head(source) = Head(word)
       /\ RegexTestPrefix(Tail(source), Tail(word))

\* new RegExp("^" + source + "$").test(word)
RECURSIVE RegexTest(_, _)
RegexTest(source, word) ==
  IF source = <<>> THEN word = <<>>
  ELSE IF Head(source) = ".*"
       THEN \/ RegexTest(Tail(source), word)
            \/ word # <<>> /\ RegexTest(source, Tail(word))
  ELSE /\ word # <<>>
       /\ Head(source) = "." \/ Head(source) = Head(word)
       /\ RegexTest(Tail(source), Tail(word))

WildcardCount(trimmed) ==
  Cardinality({i \in DOMAIN trimmed : trimmed[i] \in {".", "*"}})

\* mutant: the two limits are compared with >= and refuse the boundary itself
matchesBoardPatternBelowLimits(wordUpper, pattern) ==
  LET trimmed == toUpperCase(trim(pattern))
  IN IF trimmed = <<>> THEN TRUE
     ELSE IF Len(trimmed) >= MaxPatternLength THEN FALSE
     ELSE IF WildcardCount(trimmed) >= MaxPatternWildcards THEN FALSE
     ELSE RegexTest(RegexSource(trimmed), wordUpper)

matchesBoardPattern(wordUpper, pattern) ==
  LET trimmed == toUpperCase(trim(pattern))
  IN IF trimmed = <<>> THEN TRUE
     ELSE IF Len(trimmed) > MaxPatternLength THEN FALSE
     ELSE IF WildcardCount(trimmed) > MaxPatternWildcards THEN FALSE
     ELSE RegexTest(RegexSource(trimmed), wordUpper)

\* mutant: mode 'all' lets every length through
passesLengthFilterAllOpen(length, f) ==
  LET mode == IF f.lengthMode = "" THEN "all" ELSE f.lengthMode
  IN CASE mode = "exact" ->
            IF f.exactLength = <<>> THEN TRUE ELSE length = f.exactLength[1]
       [] mode = "range" ->
            LET min == IF f.minLength = <<>> THEN MinWordLength ELSE f.minLength[1]
                max == IF f.maxLength = <<>> THEN MaxWordLength ELSE f.maxLength[1]
            IN length >= min /\ length <= max
       [] OTHER -> TRUE

passesLengthFilter(length, f) ==
  LET mode == IF f.lengthMode = "" THEN "all" ELSE f.lengthMode
  IN CASE mode = "all" -> length >= MinWordLength /\ length <= MaxWordLength
       [] mode = "exact" ->
            IF f.exactLength = <<>> THEN TRUE ELSE length = f.exactLength[1]
       [] mode = "range" ->
            LET min == IF f.minLength = <<>> THEN MinWordLength ELSE f.minLength[1]
                max == IF f.maxLength = <<>> THEN MaxWordLength ELSE f.maxLength[1]
            IN length >= min /\ length <= max
       [] OTHER -> TRUE

passesFilters(word, f) ==
  LET wordUpper == toUpperCase(word)
      pattern == normalizeString(f.boardPattern)
  IN /\ (f.boardPattern # <<>> /\ pattern # <<>>)
          => matchesBoardPattern(wordUpper, pattern)
     /\ passesLengthFilter(Len(word), f)

workerPassesFilters(word, f) ==
  LET wordUpper == toUpperCase(word)
      pattern == toUpperCase(trim(f.boardPattern))
  IN /\ (f.boardPattern # <<>> /\ pattern # <<>>)
          => matchesBoardPattern(wordUpper, pattern)
     /\ passesLengthFilter(Len(word), f)

(***************************************************************************)
(* Ranker                                                                  *)
(***************************************************************************)
RECURSIVE CompareFrom(_, _, _)
CompareFrom(aUpper, bUpper, i) ==
  IF i > Len(aUpper) \/ i > Len(bUpper) THEN Len(aUpper) - Len(bUpper)
  ELSE IF IndexOf(aUpper[i]) # IndexOf(bUpper[i])
       THEN IndexOf(aUpper[i]) - IndexOf(bUpper[i])
  ELSE CompareFrom(aUpper, bUpper, i + 1)

\* mutant: the characters are compared by code unit, not by alphabet position
RECURSIVE CompareFromCodeUnit(_, _, _)
CompareFromCodeUnit(aUpper, bUpper, i) ==
  IF i > Len(aUpper) \/ i > Len(bUpper) THEN Len(aUpper) - Len(bUpper)
  ELSE IF CodeUnit(aUpper[i]) # CodeUnit(bUpper[i])
       THEN CodeUnit(aUpper[i]) - CodeUnit(bUpper[i])
  ELSE CompareFromCodeUnit(aUpper, bUpper, i + 1)

compareCodeUnits(a, b) == CompareFromCodeUnit(toUpperCase(a), toUpperCase(b), 1)

compareDanish(a, b) == CompareFrom(toUpperCase(a), toUpperCase(b), 1)

\* the sign of b.score / b.length - a.score / a.length (lengths are positive)
CompareEfficiency(a, b) == b.score * a.length - a.score * b.length

\* mutant: the wildcard tie-break has the wrong sign
CompareScoreMoreJokers(a, b) ==
  IF b.score # a.score THEN b.score - a.score
  ELSE IF a.usedJokers # b.usedJokers THEN b.usedJokers - a.usedJokers
  ELSE CompareEfficiency(a, b)

CompareScore(a, b) ==
  IF b.score # a.score THEN b.score - a.score
  ELSE IF a.usedJokers # b.usedJokers THEN a.usedJokers - b.usedJokers
  ELSE CompareEfficiency(a, b)

\* mutant: equal lengths are left in dictionary order
CompareLengthNoTieBreak(a, b) == b.length - a.length

CompareLength(a, b) ==
  IF b.length # a.length THEN b.length - a.length ELSE b.score - a.score

CompareDefault(a, b) == b.score - a.score

\* the comparator handed to Array.prototype.sort, by the place that sorts
Compare(by, a, b) ==
  CASE by = "score" -> CompareScore(a, b)
    [] by = "length" -> CompareLength(a, b)
    [] by = "alpha" -> compareDanish(a.word, b.word)
    [] by = "points" -> b - a          \* scoreWord: b.points - a.points
    [] OTHER -> CompareDefault(a, b)

\* Array.prototype.sort with a comparator: stable, so for a consistent
\* comparator the result is the stable insertion order
InsertSorted(t, x, by) ==
  LET p == Cardinality({i \in DOMAIN t : Compare(by, t[i], x) <= 0})
  IN SubSeq(t, 1, p) \o <<x>> \o SubSeq(t, p + 1, Len(t))

RECURSIVE StableSort(_, _)
StableSort(s, by) ==
  IF s = <<>> THEN <<>>
  ELSE InsertSorted(StableSort(SubSeq(s, 1, Len(s) - 1), by), s[Len(s)], by)

sortResults(results, sortBy) ==
  CASE sortBy = "score" -> StableSort(results, "score")
    [] sortBy = "length" -> StableSort(results, "length")
    [] sortBy = "alpha" -> StableSort(results, "alpha")
    [] OTHER -> StableSort(results, "default")

(***************************************************************************)
(* scoring.js                                                              *)
(***************************************************************************)
getLetterValue(letter) == Get(LETTER_VALUES, UpperChar(letter))

\* mutant: the points are sorted ascending, the wildcards absorb the cheapest letters
JokerPenaltyLowest(points, jokersUsed) ==
  IF jokersUsed > 0 /\ jokersUsed <= Len(points)
  THEN SumSeq(points)
       - SumSeq(SubSeq(StableSort(points, "points"), 1, Len(points) - jokersUsed))
  ELSE 0

\* the sum of the first jokersUsed entries of the points sorted descending
JokerPenalty(points, jokersUsed) ==
  IF jokersUsed > 0 /\ jokersUsed <= Len(points)
  THEN SumSeq(SubSeq(StableSort(points, "points"), 1, jokersUsed))
  ELSE 0

scoreWord(word, jokersUsed) ==
  IF word = <<>> \/ jokersUsed < 0 THEN 0
  ELSE LET points == [i \in DOMAIN word |-> getLetterValue(word[i])]
       IN SumSeq(points) - JokerPenalty(points, jokersUsed)

\* searchWorker.js reads LETTER_VALUES[letter] without upper-casing
workerScoreWord(word, jokersUsed) ==
  IF word = <<>> \/ jokersUsed < 0 THEN 0
  ELSE LET points == [i \in DOMAIN word |-> Get(LETTER_VALUES, word[i])]
       IN SumSeq(points) - JokerPenalty(points, jokersUsed)

(***************************************************************************)
(* The search loop                                                         *)
(***************************************************************************)
Candidate(word, score, wildcardsUsed) ==
  [word |-> word, score |-> score, length |-> Len(word), usedJokers |-> wildcardsUsed]

\* mutant: the board letters are never taken into account
FormabilityNoExtras(word, parsed, extraLetters) ==
  canFormWord(word, parsed.letterCounts, parsed.wildcards)

\* extraLetters && extraLetters.size > 0 ? canFormWordWithExtras : canFormWord
Formability(word, parsed, extraLetters) ==
  IF DOMAIN extraLetters # {}
  THEN canFormWordWithExtras(word, parsed.letterCounts, parsed.wildcards, extraLetters)
  ELSE canFormWord(word, parsed.letterCounts, parsed.wildcards)

workerFormability(word, parsed, extraLetters) ==
  IF DOMAIN extraLetters # {}
  THEN workerCanFormWordWithExtras(word, parsed.letterCounts, parsed.wildcards, extraLetters)
  ELSE workerCanFormWord(word, parsed.letterCounts, parsed.wildcards)

\* mutant: no word is skipped for having been seen
SearchStepNoSeenSet(acc, word, parsed, extraLetters, f) ==
  LET normalizedWord == trim(toUpperCase(word))
      form == Formability(word, parsed, extraLetters)
  IN IF ~form.canForm THEN acc
     ELSE IF ~form.usedUserLetters THEN acc
     ELSE IF ~passesFilters(word, f) THEN acc
     ELSE [results |-> Append(acc.results,
                              Candidate(word, scoreWord(word, form.wildcardsUsed),
                                        form.wildcardsUsed)),
           seenWords |-> acc.seenWords \cup {normalizedWord}]

\* one iteration of searchWords' loop: acc = [results, seenWords]
SearchStep(acc, word, parsed, extraLetters, f) ==
  LET normalizedWord == trim(toUpperCase(word))
      form == Formability(word, parsed, extraLetters)
  IN IF normalizedWord \in acc.seenWords THEN acc
     ELSE IF ~form.canForm THEN acc
     ELSE IF ~form.usedUserLetters THEN acc
     ELSE IF ~passesFilters(word, f) THEN acc
     ELSE [results |-> Append(acc.results,
                              Candidate(word, scoreWord(word, form.wildcardsUsed),
                                        form.wildcardsUsed)),
           seenWords |-> acc.seenWords \cup {normalizedWord}]

WorkerSearchStep(acc, word, parsed, extraLetters, f) ==
  LET normalizedWord == trim(toUpperCase(word))
      form == workerFormability(word, parsed, extraLetters)
  IN IF normalizedWord \in acc.seenWords THEN acc
     ELSE IF ~form.canForm THEN acc
     ELSE IF ~form.usedUserLetters THEN acc
     ELSE IF ~workerPassesFilters(word, f) THEN acc
     ELSE [results |-> Append(acc.results,
                              Candidate(word, workerScoreWord(word, form.wildcardsUsed),
                                        form.wildcardsUsed)),
           seenWords |-> acc.seenWords \cup {normalizedWord}]

SortKey(f) == IF f.sortBy = "" THEN "score" ELSE f.sortBy

Response(results) == [results |-> results, totalFound |-> Len(results)]

searchWords(allWords, str, f) ==
  LET parsed == parseLetters(str)
      extraLetters == buildExtraLettersFromPattern(f.boardPattern)
      loop[n \in 0..Len(allWords)] ==
        IF n = 0 THEN [results |-> <<>>, seenWords |-> {}]
        ELSE SearchStep(loop[n - 1], allWords[n], parsed, extraLetters, f)
  IN Response(sortResults(loop[Len(allWords)].results, SortKey(f)))

\* the worker's handleSearch past its payload checks
workerSearch(allWords, str, f) ==
  LET parsed == workerParseLetters(str)
      extraLetters == workerBuildExtraLettersFromPattern(f.boardPattern)
      loop[n \in 0..Len(allWords)] ==
        IF n = 0 THEN [results |-> <<>>, seenWords |-> {}]
        ELSE WorkerSearchStep(loop[n - 1], allWords[n], parsed, extraLetters, f)
  IN Response(sortResults(loop[Len(allWords)].results, SortKey(f)))

\* loadWordlist: upper-case, drop duplicates (a Set keeps insertion order)
loadWordlist(data) ==
  LET upper == [i \in DOMAIN data |-> toUpperCase(data[i])]
      firsts == {i \in DOMAIN upper : \A j \in 1..(i - 1) : upper[j] # upper[i]}
      position(i) == Cardinality({j \in firsts : j <= i})
  IN [k \in 1..Cardinality(firsts) |-> upper[CHOOSE i \in firsts : position(i) = k]]

\* handleLoadWordlist: upper-case, drop duplicates, Array.prototype.sort()
handleLoadWordlist(words) ==
  LET upper == [i \in DOMAIN words |-> toUpperCase(words[i])]
      firsts == {i \in DOMAIN upper : \A j \in 1..(i - 1) : upper[j] # upper[i]}
      rank(i) == Cardinality({j \in firsts : StringLess(upper[j], upper[i])}) + 1
  IN [k \in 1..Cardinality(firsts) |-> upper[CHOOSE i \in firsts : rank(i) = k]]

(***************************************************************************)
(* Inputs of the model                                                     *)
(***************************************************************************)
Letters == {"A", "D"}
Words == SeqsUpTo(Letters, MaxWordLen) \ {<<>>}
Wordlists == {w \in SeqsUpTo(Words, MaxDict) : NoDup(w)}
Racks == SeqsUpTo(Letters \cup {"?"}, MaxRackLen) \ {<<>>}
\* a character outside the alphabet and the wildcard symbols
InvalidRacks == {<<"A", "1", "?">>}
Patterns == SeqsUpTo({"A", ".", "*"}, MaxPatLen)

Filter(pattern, mode, exact, min, max, sortBy) ==
  [boardPattern |-> pattern, lengthMode |-> mode, exactLength |-> exact,
   minLength |-> min, maxLength |-> max, sortBy |-> sortBy]

NoCall == [fn |-> "none"]

\* the values of the sort select the user switches between
SortOptions == {"score", "length"}

\* arguments of saveRecentSearch: letters of 15 and of 16 characters, an
\* invalid character, a pattern of 51 characters, a pattern with "."
SavedLetters ==
  {<<"A">>, <<"D">>, <<"A">> \o [i \in 1..(MaxLettersLength - 1) |-> "?"],
   <<"A">> \o [i \in 1..MaxLettersLength |-> "?"], <<"A", "1">>, <<>>}

SavedPatterns ==
  {<<>>, [i \in 1..(MaxInputLength + 1) |-> "A"], <<".", "A">>}

(***************************************************************************)
(* ui.js: the search form                                                  *)
(***************************************************************************)
\* the values of the input elements; a numeric field that parseInt reads as
\* NaN is <<>>
Dom(letters, pattern, mode, exact, min, max, sortBy) ==
  [letters |-> letters, pattern |-> pattern, lengthMode |-> mode,
   exact |-> exact, min |-> min, max |-> max, sortBy |-> sortBy]

EmptyDom == Dom(<<>>, <<>>, "all", <<>>, <<>>, <<>>, "score")

getFilters(d) ==
  Filter(trim(d.pattern), d.lengthMode,
         IF d.lengthMode = "exact" THEN d.exact ELSE <<>>,
         IF d.lengthMode = "range" THEN d.min ELSE <<>>,
         IF d.lengthMode = "range" THEN d.max ELSE <<>>,
         d.sortBy)

\* utils.js
isValidInput(str) ==
  /\ str # <<>>
  /\ Len(str) <= MaxInputLength
  /\ \A i \in DOMAIN str :
       UpperChar(str[i]) \in Range(DANISH_ALPHABET) \cup WILDCARD_CHARS

OutOfRange(n) == n # <<>> /\ (n[1] < MinWordLength \/ n[1] > MaxWordLength)

\* mutant: a minimum above the maximum is let through
validateFiltersNoOrder(f) ==
  IF f.lengthMode = "exact" /\ OutOfRange(f.exactLength)
  THEN [valid |-> FALSE, error |-> "exactLength"]
  ELSE IF f.lengthMode = "range" /\ OutOfRange(f.minLength)
  THEN [valid |-> FALSE, error |-> "minLength"]
  ELSE IF f.lengthMode = "range" /\ OutOfRange(f.maxLength)
  THEN [valid |-> FALSE, error |-> "maxLength"]
  ELSE [valid |-> TRUE, error |-> ""]

\* searchEngine.js
validateFilters(f) ==
  IF f.lengthMode = "exact" /\ OutOfRange(f.exactLength)
  THEN [valid |-> FALSE, error |-> "exactLength"]
  ELSE IF f.lengthMode = "range" /\ OutOfRange(f.minLength)
  THEN [valid |-> FALSE, error |-> "minLength"]
  ELSE IF f.lengthMode = "range" /\ OutOfRange(f.maxLength)
  THEN [valid |-> FALSE, error |-> "maxLength"]
  ELSE IF /\ f.lengthMode = "range" /\ f.minLength # <<>> /\ f.maxLength # <<>>
          /\ f.minLength[1] > f.maxLength[1]
  THEN [valid |-> FALSE, error |-> "minAboveMax"]
  ELSE [valid |-> TRUE, error |-> ""]

\* the message handleSearch shows for the form, "" when it lets the search start
FormError(d) ==
  LET lettersStr == trim(d.letters)
      boardPattern == trim(d.pattern)
  IN IF lettersStr = <<>> THEN "noLetters"
     ELSE IF Len(lettersStr) > MaxLettersLength THEN "tooManyLetters"
     ELSE IF ~isValidInput(lettersStr) THEN "invalidLetters"
     ELSE IF boardPattern # <<>> /\ ~isValidInput(boardPattern) THEN "invalidPattern"
     ELSE validateFilters(getFilters(d)).error

Request(d) == [lettersString |-> trim(d.letters), filters |-> getFilters(d)]

\* mutant: the worker is used whenever the Worker object exists
PathForWorkerObject(flag, worker) == IF worker THEN "worker" ELSE "main"

\* if (useWorker && searchWorker)
PathFor(flag, worker) == IF flag /\ worker THEN "worker" ELSE "main"

\* what the page shows once a result list has arrived
Displayed(d, results) ==
  IF results = <<>>
  THEN [error |-> "noResults", results |-> d.results, loading |-> FALSE,
        disabled |-> FALSE]
  ELSE [error |-> d.error, results |-> <<results>>, loading |-> FALSE,
        disabled |-> FALSE]

\* initUI: updateSearchButtonState disables the button of the empty form
NoDisplay == [error |-> "", results |-> <<>>, loading |-> FALSE, disabled |-> TRUE]

\* validateSearchObject: <<>> for null, else the sanitized entry (the timestamp,
\* always Date.now() of the save, is left out)
validateSearchObject(search) ==
  IF Len(search.letters) > MaxLettersLength THEN <<>>
  ELSE IF ~isValidInput(search.letters) THEN <<>>
  ELSE IF Len(search.boardPattern) > MaxInputLength THEN <<>>
  ELSE IF search.boardPattern # <<>> /\ ~isValidInput(search.boardPattern) THEN <<>>
  ELSE <<[letters |-> SubSeq(search.letters, 1, Min(Len(search.letters), MaxLettersLength)),
          boardPattern |-> SubSeq(search.boardPattern, 1,
                                  Min(Len(search.boardPattern), MaxInputLength))]>>

\* slice(0, n)
Slice(s, n) == SubSeq(s, 1, Min(Len(s), n))

RECURSIVE ValidatedEntries(_)
ValidatedEntries(stored) ==
  IF stored = <<>> THEN <<>>
  ELSE validateSearchObject(Head(stored)) \o ValidatedEntries(Tail(stored))

getRecentSearches(stored) == Slice(ValidatedEntries(stored), MAX_RECENT_SEARCHES)

\* mutant: the list is never cut
saveRecentSearchUncut(stored, str, f) ==
  IF str = <<>> \/ Len(str) > MaxLettersLength THEN stored
  ELSE LET validated ==
             validateSearchObject([letters |-> str,
                                   boardPattern |-> Slice(f.boardPattern, MaxInputLength)])
       IN IF validated = <<>> THEN stored
          ELSE validated \o
                 SelectSeq(getRecentSearches(stored),
                           LAMBDA e : e.letters # validated[1].letters
                                      \/ e.boardPattern # validated[1].boardPattern)

\* the list stored after saveRecentSearch(lettersString, filters)
saveRecentSearch(stored, str, f) ==
  IF str = <<>> \/ Len(str) > MaxLettersLength THEN stored
  ELSE LET searches == getRecentSearches(stored)
           validated ==
             validateSearchObject([letters |-> str,
                                   boardPattern |-> Slice(f.boardPattern, MaxInputLength)])
       IN IF validated = <<>> THEN stored
          ELSE Slice(validated \o
                       SelectSeq(searches,
                                 LAMBDA e : e.letters # validated[1].letters
                                            \/ e.boardPattern # validated[1].boardPattern),
                     MAX_RECENT_SEARCHES)

\* nothing typed, nothing searched, no worker
UIIdle ==
  /\ dom = EmptyDom
  /\ display = NoDisplay
  /\ currentResults = <<>>
  /\ recentSearches = <<>>
  /\ useWorker = FALSE
  /\ searchWorker = FALSE
  /\ pending = <<>>
  /\ clicks = 0

NoMessages ==
  /\ inbox = <<>>
  /\ handled = 0
  /\ outbox = <<>>
  /\ delivered = 0

(***************************************************************************)
(* Operations                                                              *)
(***************************************************************************)
\* the main thread runs searchWords on the request
SearchWords ==
  /\ call = NoCall
  /\ mainResponse' = <<searchWords(wordlist, lettersString, filters)>>
  /\ UNCHANGED <<uiVars, channelVars, wordlistFile, wordlist, workerWordlist, lettersString, filters,
                 workerResponse, call, ret>>

\* the worker receives { type: 'search', payload } and runs handleSearch
WorkerHandleSearch ==
  /\ call = NoCall
  /\ IF Len(lettersString) > MaxLettersLength
     THEN UNCHANGED workerResponse
     ELSE workerResponse' = <<workerSearch(workerWordlist, lettersString, filters)>>
  /\ UNCHANGED <<uiVars, channelVars, wordlistFile, wordlist, workerWordlist, lettersString, filters,
                 mainResponse, call, ret>>

InitLoaded(files) ==
  /\ UIIdle
  /\ NoMessages
  /\ wordlistFile \in files
  /\ wordlist = loadWordlist(wordlistFile)
  /\ workerWordlist = handleLoadWordlist(wordlist)
  /\ mainResponse = <<>>
  /\ workerResponse = <<>>
  /\ call = NoCall
  /\ ret = <<>>

\* formability and the filters are decided word by word: one-word dictionaries
Init ==
  /\ InitLoaded({<<w>> : w \in Words})
  /\ lettersString \in Racks \cup InvalidRacks
  /\ filters \in {Filter(p, "all", <<>>, <<>>, <<>>, "score") : p \in Patterns}

\* direct calls of scoreWord (scoring.js) and of the worker's copy
CallScoreWord ==
  /\ call.fn = "scoreWord"
  /\ ret' = <<[path |-> "main", value |-> scoreWord(call.word, call.jokersUsed)]>>
  /\ UNCHANGED <<uiVars, channelVars, wordlistFile, wordlist, workerWordlist, lettersString, filters,
                 mainResponse, workerResponse, call>>

CallWorkerScoreWord ==
  /\ call.fn = "scoreWord"
  /\ ret' = <<[path |-> "worker", value |-> workerScoreWord(call.word, call.jokersUsed)]>>
  /\ UNCHANGED <<uiVars, channelVars, wordlistFile, wordlist, workerWordlist, lettersString, filters,
                 mainResponse, workerResponse, call>>

\* passesFilters calls matchesBoardPattern(wordUpper, pattern)
CallMatchesBoardPattern ==
  /\ call.fn = "matchesBoardPattern"
  /\ ret' = <<[path |-> "main", value |-> matchesBoardPattern(call.word, call.pattern)]>>
  /\ UNCHANGED <<uiVars, channelVars, wordlistFile, wordlist, workerWordlist, lettersString, filters,
                 mainResponse, workerResponse, call>>

\* direct calls of parseLetters (utils.js) and of the worker's copy
CallParseLetters ==
  /\ call.fn = "parseLetters"
  /\ ret' = <<[path |-> "main", value |-> parseLetters(call.str)]>>
  /\ UNCHANGED <<uiVars, channelVars, wordlistFile, wordlist, workerWordlist, lettersString, filters,
                 mainResponse, workerResponse, call>>

CallWorkerParseLetters ==
  /\ call.fn = "parseLetters"
  /\ ret' = <<[path |-> "worker", value |-> workerParseLetters(call.str)]>>
  /\ UNCHANGED <<uiVars, channelVars, wordlistFile, wordlist, workerWordlist, lettersString, filters,
                 mainResponse, workerResponse, call>>

\* ui.js handleSearch up to its await, run on the form d: the form is
\* checked, then the invocation is suspended on the 10 ms timer
UIHandleSearch(d) ==
  /\ clicks < MaxClicks
  /\ clicks' = clicks + 1
  /\ dom' = d
  /\ IF FormError(d) # ""
     THEN /\ display' = [error |-> FormError(d), results |-> <<>>,
                         loading |-> display.loading,
                         disabled |-> IF d.letters # dom.letters
                                      THEN trim(d.letters) = <<>>
                                      ELSE display.disabled]
          /\ UNCHANGED pending
     ELSE /\ display' = [error |-> "", results |-> <<>>, loading |-> TRUE,
                         disabled |-> TRUE]
          /\ pending' = Append(pending, Request(d))
  /\ UNCHANGED <<engineVars, channelVars, currentResults, recentSearches,
                 useWorker, searchWorker>>

\* a click on the search button, or Enter in an input field: neither reaches
\* handleSearch while the button is disabled
UISearchButton ==
  /\ ~display.disabled
  /\ UIHandleSearch(dom)

\* the length-mode radio button "all" is checked: handleSearch is called
UILengthModeAll ==
  /\ dom.lengthMode # "all"
  /\ UIHandleSearch([dom EXCEPT !.lengthMode = "all"])

\* the sort select changes: handleSearch is called when results exist
UISortChange ==
  \E sortBy \in SortOptions \ {dom.sortBy} :
    IF currentResults # <<>>
    THEN UIHandleSearch([dom EXCEPT !.sortBy = sortBy])
    ELSE /\ dom' = [dom EXCEPT !.sortBy = sortBy]
         /\ UNCHANGED <<engineVars, channelVars, display, currentResults,
                        recentSearches, useWorker, searchWorker, pending, clicks>>

\* applyRecentSearch: a click on a recent-search chip fills the two fields,
\* runs updateSearchButtonState and calls handleSearch
UIApplyRecentSearch ==
  \E i \in DOMAIN getRecentSearches(recentSearches) :
    UIHandleSearch([dom EXCEPT
                      !.letters = getRecentSearches(recentSearches)[i].letters,
                      !.pattern = getRecentSearches(recentSearches)[i].boardPattern])

\* ui.js handleSearch after its await: the request goes to the worker, or
\* searchWords runs it, the results are displayed and the search is saved
UIResumeSearch ==
  /\ pending # <<>>
  /\ pending' = Tail(pending)
  /\ IF PathFor(useWorker, searchWorker) = "worker"
     THEN /\ inbox' = Append(inbox, Head(pending))
          /\ UNCHANGED <<mainResponse, display, currentResults, recentSearches>>
     ELSE LET r == searchWords(wordlist, Head(pending).lettersString,
                               Head(pending).filters)
          IN /\ mainResponse' = <<r>>
             /\ display' = Displayed(display, r.results)
             /\ currentResults' =
                  IF r.results = <<>> THEN currentResults ELSE r.results
             /\ recentSearches' =
                  IF r.results = <<>> THEN recentSearches
                  ELSE saveRecentSearch(recentSearches, Head(pending).lettersString,
                                        Head(pending).filters)
             /\ UNCHANGED inbox
  /\ UNCHANGED <<wordlistFile, wordlist, workerWordlist, lettersString, filters,
                 workerResponse, call, ret, dom, useWorker, searchWorker, clicks,
                 handled, outbox, delivered>>

\* searchWorker.js: the message listener takes the next search message and
\* runs handleSearch on its payload
WorkerOnMessage ==
  /\ handled < Len(inbox)
  /\ handled' = handled + 1
  /\ LET payload == inbox[handled + 1]
     IN IF Len(payload.lettersString) > MaxLettersLength
        THEN UNCHANGED <<workerResponse, outbox>>
        ELSE LET r == workerSearch(workerWordlist, payload.lettersString,
                                   payload.filters)
             IN /\ workerResponse' = <<r>>
                /\ outbox' = Append(outbox, r)
  /\ UNCHANGED <<uiVars, wordlistFile, wordlist, workerWordlist, lettersString,
                 filters, mainResponse, call, ret, inbox, delivered>>

\* ui.js: the worker's message listener runs handleWorkerSearchResult, which
\* reads the letters and the filters to save from the form
UIWorkerResult ==
  /\ delivered < Len(outbox)
  /\ delivered' = delivered + 1
  /\ LET results == outbox[delivered + 1].results
     IN /\ display' = Displayed(display, results)
        /\ currentResults' = IF results = <<>> THEN currentResults ELSE results
        /\ recentSearches' =
             IF results = <<>> THEN recentSearches
             ELSE saveRecentSearch(recentSearches, trim(dom.letters), getFilters(dom))
  /\ UNCHANGED <<engineVars, dom, useWorker, searchWorker, pending, clicks,
                 inbox, handled, outbox>>

\* ui.js: the worker's error listener.  The worker raised the error outside a
\* search, or while its listener handled a search message, which then gets
\* no response (nothing in searchWorker.js catches and answers)
UIWorkerError ==
  /\ searchWorker
  /\ \/ useWorker /\ UNCHANGED handled
     \/ handled < Len(inbox) /\ handled' = handled + 1
  /\ useWorker' = FALSE
  /\ UNCHANGED <<engineVars, dom, display, currentResults, recentSearches,
                 searchWorker, pending, clicks, inbox, outbox, delivered>>

\* direct calls of saveRecentSearch
CallSaveRecentSearch ==
  \E str \in SavedLetters, pattern \in SavedPatterns :
    /\ call.fn = "saveRecentSearch"
    /\ call' = [fn |-> "saveRecentSearch", letters |-> str, boardPattern |-> pattern]
    /\ recentSearches' =
         saveRecentSearch(recentSearches, str,
                          Filter(pattern, "all", <<>>, <<>>, <<>>, "score"))
    /\ UNCHANGED <<wordlistFile, wordlist, workerWordlist, lettersString, filters,
                   mainResponse, workerResponse, ret, channelVars, dom, display,
                   currentResults, useWorker, searchWorker, pending, clicks>>

Next == SearchWords \/ WorkerHandleSearch

Spec == Init /\ [][Next]_vars

(***************************************************************************)
(* Ranking: dictionaries of several words, racks with one and with two     *)
(* wildcards, no board pattern, every way of leaving sortBy to the default *)
(***************************************************************************)
RankRacks == {<<"A", "D", "?">>, <<"A", "?", "?">>}

InitRank ==
  /\ InitLoaded(Wordlists)
  /\ lettersString \in RankRacks
  /\ filters \in {Filter(<<>>, "all", <<>>, <<>>, <<>>, sortBy) :
                    sortBy \in {"score", "", "points"}}

SpecRank == InitRank /\ [][Next]_vars

(***************************************************************************)
(* Duplicates: dictionary files that hold a word twice, in both letter     *)
(* cases and with a trailing space                                         *)
(***************************************************************************)
DuplicateWords == {<<"A", "A">>, <<"a", "a">>, <<"A", "A", " ">>, <<"A", "D">>, <<"A", "d">>}

InitDuplicates ==
  /\ InitLoaded(SeqsUpTo(DuplicateWords, MaxDict))
  /\ lettersString \in {<<"A", "?", "?">>, <<"A", "D">>}
  /\ filters \in {Filter(<<>>, "all", <<>>, <<>>, <<>>, sortBy) :
                    sortBy \in {"score", "alpha"}}

SpecDuplicates == InitDuplicates /\ [][Next]_vars

(***************************************************************************)
(* Ranking by length: dictionaries of several words of equal and of        *)
(* different lengths, a rack that forms most of them                       *)
(***************************************************************************)
InitLengthSort ==
  /\ InitLoaded(Wordlists)
  /\ lettersString = <<"A", "D", "?">>
  /\ filters = Filter(<<>>, "all", <<>>, <<>>, <<>>, "length")

SpecLengthSort == InitLengthSort /\ [][Next]_vars

(***************************************************************************)
(* Alphabetical ranking: words over Z and Danish letters, a rack that      *)
(* forms every one of them                                                 *)
(***************************************************************************)
AlphaLetters == {"Z", "AE", "AA"}
AlphaWords == SeqsUpTo(AlphaLetters, MaxWordLen - 1) \ {<<>>}

InitAlpha ==
  /\ InitLoaded({w \in SeqsUpTo(AlphaWords, MaxDict) : NoDup(w)})
  /\ lettersString = <<"Z", "AE", "AA", "?", "?">>
  /\ filters = Filter(<<>>, "range", <<>>, <<1>>, <<MaxWordLength>>, "alpha")

SpecAlpha == InitAlpha /\ [][Next]_vars

(***************************************************************************)
(* Length filter: words of every length up to MaxWordLen, and of the       *)
(* lengths 15 and 16 at the upper limit                                    *)
(***************************************************************************)
Run(ch, n) == [i \in 1..n |-> ch]

LengthWords ==
  {Run("A", n) : n \in (1..MaxWordLen) \cup {MaxWordLength, MaxWordLength + 1}}

\* 15 characters: one letter and 14 wildcards
LongRack == <<"A">> \o Run("?", MaxLettersLength - 1)

\* 16 characters
TooLongRack == LongRack \o <<"?">>

LengthOptions ==
  {<<>>} \cup {<<n>> : n \in {MinWordLength, MaxWordLen, MaxWordLength + 1}}

LengthPatterns == {<<>>, <<"A", "*">>}

LengthFilters ==
  {Filter(p, mode, <<>>, <<>>, <<>>, sortBy) :
     p \in LengthPatterns, mode \in {"all", "", "any"},
     sortBy \in {"score", "length", "alpha"}}
  \cup
  {Filter(p, "exact", n, <<>>, <<>>, sortBy) :
     p \in LengthPatterns, n \in LengthOptions \cup {<<MaxWordLength>>},
     sortBy \in {"score", "length", "alpha"}}
  \cup
  {Filter(p, "range", <<>>, min, max, "score") :
     p \in LengthPatterns, min \in LengthOptions, max \in LengthOptions}

InitLength ==
  /\ InitLoaded({w \in SeqsUpTo(LengthWords, MaxDict) : NoDup(w)})
  /\ lettersString \in {LongRack, TooLongRack, <<"A", "?">>}
  /\ filters \in LengthFilters

SpecLength == InitLength /\ [][Next]_vars

(***************************************************************************)
(* Direct calls of scoreWord                                               *)
(***************************************************************************)
InitCall(calls) ==
  /\ UIIdle
  /\ NoMessages
  /\ wordlistFile = <<>>
  /\ wordlist = <<>>
  /\ workerWordlist = <<>>
  /\ lettersString = <<>>
  /\ filters = Filter(<<>>, "all", <<>>, <<>>, <<>>, "score")
  /\ mainResponse = <<>>
  /\ workerResponse = <<>>
  /\ call \in calls
  /\ ret = <<>>

\* Q is a letter of the alphabet without an entry in LETTER_VALUES
ScoreLetters == {"A", "D", "Z", "Q"}

InitScore ==
  InitCall({[fn |-> "scoreWord", word |-> w, jokersUsed |-> k] :
              w \in SeqsUpTo(ScoreLetters, MaxWordLen),
              k \in (0 - 1)..(MaxWordLen + 1)})

NextScore == CallScoreWord \/ CallWorkerScoreWord

SpecScore == InitScore /\ [][NextScore]_vars

(***************************************************************************)
(* Direct calls of matchesBoardPattern: the pattern is what passesFilters  *)
(* hands over, trimmed, upper-cased and not empty                          *)
(***************************************************************************)
\* pads that bring a short pattern to the limits of 15 symbols and 50 characters
StarPad == Run("*", MaxPatternWildcards - MaxPatLen)
LiteralPad == Run("A", MaxPatternLength - MaxPatLen)

BasePatterns ==
  {p \in SeqsUpTo({"A", "D", ".", "*", " "}, MaxPatLen + 1) : p # <<>> /\ trim(p) = p}

PatternCalls ==
  {[fn |-> "matchesBoardPattern", word |-> w, pattern |-> p \o pad] :
     w \in SeqsUpTo(Letters, MaxWordLen), p \in BasePatterns, pad \in {<<>>, StarPad}}
  \cup
  {[fn |-> "matchesBoardPattern", word |-> LiteralPad \o w, pattern |-> p \o LiteralPad] :
     w \in SeqsUpTo(Letters, MaxPatLen), p \in BasePatterns}

InitPattern == InitCall(PatternCalls)

NextPattern == CallMatchesBoardPattern

SpecPattern == InitPattern /\ [][NextPattern]_vars

(***************************************************************************)
(* Direct calls of parseLetters: rack strings with letters in both cases,  *)
(* the wildcard symbols and spaces                                         *)
(***************************************************************************)
ParseSymbols == {"A", "a", "D", "?", "_", "*", " "}

InitParse ==
  InitCall({[fn |-> "parseLetters", str |-> str] :
              str \in SeqsUpTo(ParseSymbols, MaxRackLen + 1)})

NextParse == CallParseLetters \/ CallWorkerParseLetters

SpecParse == InitParse /\ [][NextParse]_vars

(***************************************************************************)
(* Direct calls of saveRecentSearch, from the empty store                  *)
(***************************************************************************)
InitRecent == InitCall({[fn |-> "saveRecentSearch", letters |-> <<>>, boardPattern |-> <<>>]})

NextRecent == CallSaveRecentSearch

SpecRecent == InitRecent /\ [][NextRecent]_vars

(***************************************************************************)
(* The search form: the user fills the fields and starts searches; the     *)
(* worker was created by initWebWorker, or could not be, or fails later    *)
(***************************************************************************)
FormLengths ==
  {<<"all", <<>>, <<>>, <<>>>>,
   <<"exact", <<MaxWordLength + 1>>, <<>>, <<>>>>,
   <<"range", <<>>, <<MinWordLength - 1>>, <<>>>>,
   <<"range", <<>>, <<>>, <<MaxWordLength + 1>>>>,
   <<"range", <<>>, <<MaxWordLen>>, <<MinWordLength>>>>}

DomInputs ==
  {Dom(<<"a", "?">>, <<>>, l[1], l[2], l[3], l[4], "score") : l \in FormLengths}
  \cup
  {Dom(rack, <<"A", "*">>, "all", <<>>, <<>>, <<>>, "score") :
     rack \in {<<" ">>, <<"A", "1">>, LongRack, TooLongRack}}
  \cup
  {Dom(<<"D">>, <<>>, "all", <<>>, <<>>, <<>>, "score")}

FormWordlists == {<<<<"A", "D">>, <<"A", "A">>>>}

\* the user types into the fields and picks a length mode other than "all";
\* the input listener of the letters field runs updateSearchButtonState
UserTypes(inputs) ==
  \E d \in inputs :
    /\ d.lengthMode = "all" => dom.lengthMode = "all"
    /\ dom' = [d EXCEPT !.sortBy = dom.sortBy]
    /\ dom' # dom
    /\ display' = [display EXCEPT
                     !.disabled = IF d.letters # dom.letters
                                  THEN trim(d.letters) = <<>> ELSE @]
    /\ UNCHANGED <<engineVars, channelVars, currentResults, recentSearches,
                   useWorker, searchWorker, pending, clicks>>

UserEdit == UserTypes(DomInputs)

\* initWebWorker has run: the worker exists and has loaded the dictionary, or
\* Worker is unsupported or its constructor threw
InitForm ==
  /\ wordlistFile \in FormWordlists
  /\ wordlist = loadWordlist(wordlistFile)
  /\ workerWordlist = handleLoadWordlist(wordlist)
  /\ lettersString = <<>>
  /\ filters = Filter(<<>>, "all", <<>>, <<>>, <<>>, "score")
  /\ mainResponse = <<>>
  /\ workerResponse = <<>>
  /\ call = NoCall
  /\ ret = <<>>
  /\ dom = EmptyDom
  /\ display = NoDisplay
  /\ currentResults = <<>>
  /\ recentSearches = <<>>
  /\ useWorker \in BOOLEAN
  /\ searchWorker = useWorker
  /\ pending = <<>>
  /\ clicks = 0
  /\ NoMessages

NextForm ==
  \/ UserEdit
  \/ UISearchButton
  \/ UILengthModeAll
  \/ UIResumeSearch
  \/ WorkerOnMessage
  \/ UIWorkerResult
  \/ UIWorkerError

SpecForm == InitForm /\ [][NextForm]_vars

(***************************************************************************)
(* The events of the page: every event that calls handleSearch, on two     *)
(* forms that pass its checks and two that do not                          *)
(***************************************************************************)
EventInputs ==
  {Dom(<<"a", "?">>, <<>>, "all", <<>>, <<>>, <<>>, "score"),
   Dom(LongRack, <<"A", "*">>, "all", <<>>, <<>>, <<>>, "score"),
   Dom(<<"a", "?">>, <<".", "A">>, "all", <<>>, <<>>, <<>>, "score"),
   Dom(<<"a", "?">>, <<>>, "range", <<>>, <<MaxWordLen>>, <<MinWordLength>>, "score")}

UserEditEvents == UserTypes(EventInputs)

NextEvents ==
  \/ UserEditEvents
  \/ UISearchButton
  \/ UILengthModeAll
  \/ UISortChange
  \/ UIApplyRecentSearch
  \/ UIResumeSearch
  \/ WorkerOnMessage
  \/ UIWorkerResult
  \/ UIWorkerError

SpecEvents == InitForm /\ [][NextEvents]_vars

(***************************************************************************)
(* The worker on its own: search messages of any content arrive            *)
(***************************************************************************)
WorkerRequests ==
  {[lettersString |-> rack, filters |-> Filter(p, "all", <<>>, <<>>, <<>>, "score")] :
     rack \in {<<"A", "?">>, <<"D">>, <<"A", "D">>, LongRack, TooLongRack},
     p \in {<<>>, <<"A", "*">>}}

InitWorker ==
  /\ UIIdle
  /\ wordlistFile \in FormWordlists
  /\ wordlist = loadWordlist(wordlistFile)
  /\ workerWordlist = handleLoadWordlist(wordlist)
  /\ lettersString = <<>>
  /\ filters = Filter(<<>>, "all", <<>>, <<>>, <<>>, "score")
  /\ mainResponse = <<>>
  /\ workerResponse = <<>>
  /\ call = NoCall
  /\ ret = <<>>
  /\ inbox \in SeqsUpTo(WorkerRequests, MaxClicks) \ {<<>>}
  /\ handled = 0
  /\ outbox = <<>>
  /\ delivered = 0

NextWorker == WorkerOnMessage

SpecWorker == InitWorker /\ [][NextWorker]_vars

(***************************************************************************)
(* The vocabulary of the properties                                        *)
(***************************************************************************)
CountIn(str, c) == Cardinality({i \in DOMAIN str : str[i] = c})

\* the Rack of a request: letter counts plus wildcard count
MainRack == parseLetters(lettersString)
WorkerRack == workerParseLetters(lettersString)

\* occurrences of letter c among the literal letters of the board pattern
BoardCount(c) ==
  IF IndexOf(c) >= 0
  THEN Cardinality({i \in DOMAIN filters.boardPattern :
                      UpperChar(filters.boardPattern[i]) = c})
  ELSE 0

\* the word can be covered: rack letters, board letters and assigned wildcards
Coverable(word, rack) ==
  \E assigned \in [Range(word) -> 0..rack.wildcards] :
    /\ SumFn(assigned) <= rack.wildcards
    /\ \A c \in Range(word) :
         CountIn(word, c) <= Get(rack.letterCounts, c) + BoardCount(c) + assigned[c]

\* the least number of wildcards that lays the word
MinWildcards(word, rack) ==
  SumFn([c \in Range(word) |->
           Max0(Max0(CountIn(word, c) - BoardCount(c)) - Get(rack.letterCounts, c))])

\* some letter still needed after the board letters is held by the rack
UsesRackLetter(word, rack) ==
  \E c \in Range(word) :
    CountIn(word, c) - BoardCount(c) > 0 /\ Get(rack.letterCounts, c) > 0

\* every way of replacing each "*" of the pattern by a run of "." that gives
\* a template of exactly n positions
RECURSIVE Templates(_, _)
Templates(pattern, n) ==
  IF pattern = <<>> THEN (IF n = 0 THEN {<<>>} ELSE {})
  ELSE IF Head(pattern) = " " THEN Templates(Tail(pattern), n)
  ELSE IF Head(pattern) = "*"
       THEN UNION {{[i \in 1..k |-> "."] \o t : t \in Templates(Tail(pattern), n - k)} :
                     k \in 0..n}
  ELSE IF n = 0 THEN {}
  ELSE {<<Head(pattern)>> \o t : t \in Templates(Tail(pattern), n - 1)}

\* the whole word has the shape of the pattern
HasShape(word, pattern) ==
  \E t \in Templates(toUpperCase(pattern), Len(word)) :
    \A i \in DOMAIN word : t[i] = "." \/ t[i] = word[i]

Entries(response) == UNION {Range(r.results) : r \in Range(response)}

ResultWords(response) == {e.word : e \in Entries(response)}

(***************************************************************************)
(* C1: every returned word can be covered letter by letter by the rack's   *)
(* letters, the literal letters of the board pattern and at most the       *)
(* rack's wildcard count of wildcards, on both paths.                      *)
(***************************************************************************)
C1_Coverable ==
  /\ \A e \in Entries(mainResponse) : Coverable(e.word, MainRack)
  /\ \A e \in Entries(workerResponse) : Coverable(e.word, WorkerRack)

\* a word laid with a rack letter, a board letter and a wildcard is returned
C1_Witness ==
  /\ \E e \in Entries(mainResponse) :
       /\ e.usedJokers > 0
       /\ \E c \in Range(e.word) : BoardCount(c) > 0
       /\ UsesRackLetter(e.word, MainRack)
  /\ \E e \in Entries(workerResponse) : e.usedJokers > 0

(***************************************************************************)
(* C2: every returned word uses at least one genuine rack letter tile, on  *)
(* the main-thread path and on the worker path.                            *)
(***************************************************************************)
C2_UsesRackLetter ==
  /\ \A e \in Entries(mainResponse) : UsesRackLetter(e.word, MainRack)
  /\ \A e \in Entries(workerResponse) : UsesRackLetter(e.word, WorkerRack)

(***************************************************************************)
(* C3: every dictionary word that is formable within the wildcard count,   *)
(* uses a rack letter, has the shape of the board pattern and passes the   *)
(* length filter is in the result list.                                    *)
(***************************************************************************)
LengthAllowed(n, f) ==
  CASE f.lengthMode \in {"", "all"} -> n >= MinWordLength /\ n <= MaxWordLength
    [] f.lengthMode = "exact" /\ f.exactLength # <<>> -> n = f.exactLength[1]
    [] f.lengthMode = "range" /\ f.minLength # <<>> /\ f.maxLength # <<>> ->
         n >= f.minLength[1] /\ n <= f.maxLength[1]
    [] OTHER -> FALSE

Qualifies(word, rack) ==
  /\ MinWildcards(word, rack) <= rack.wildcards
  /\ UsesRackLetter(word, rack)
  /\ HasShape(word, filters.boardPattern)
  /\ LengthAllowed(Len(word), filters)

C4_MinWildcards ==
  /\ \A e \in Entries(mainResponse) : e.usedJokers = MinWildcards(e.word, MainRack)
  /\ \A e \in Entries(workerResponse) : e.usedJokers = MinWildcards(e.word, WorkerRack)
  /\ \A w \in Range(wordlist) :
       /\ Formability(w, MainRack, buildExtraLettersFromPattern(filters.boardPattern)).canForm
            <=> MinWildcards(w, MainRack) <= MainRack.wildcards
       /\ workerFormability(w, WorkerRack,
                            workerBuildExtraLettersFromPattern(filters.boardPattern)).canForm
            <=> MinWildcards(w, WorkerRack) <= WorkerRack.wildcards

\* a returned word that took every wildcard of the rack although the board
\* supplied one copy of a letter it holds twice
C4_Witness ==
  \E e \in Entries(workerResponse) \cap Entries(mainResponse) :
    /\ e.usedJokers > 0 /\ e.usedJokers = MainRack.wildcards
    /\ \E c \in Range(e.word) : BoardCount(c) > 0 /\ CountIn(e.word, c) > BoardCount(c)

(***************************************************************************)
(* C5: for 0 <= k <= length, scoreWord(word, k) is the sum of the letter   *)
(* values minus the sum of the k highest values (letters outside the table *)
(* count 0), and lies between 0 and the sum of the letter values.          *)
(***************************************************************************)
Values(word) == [i \in DOMAIN word |-> Get(LETTER_VALUES, word[i])]

\* the largest sum of k of the values
TopSum(points, k) ==
  LET sums == {SumFn([i \in S |-> points[i]]) :
                 S \in {T \in SUBSET DOMAIN points : Cardinality(T) = k}}
  IN CHOOSE m \in sums : \A n \in sums : n <= m

C5_Score ==
  \A r \in Range(ret) :
    (call.fn = "scoreWord" /\ call.jokersUsed \in 0..Len(call.word)) =>
      /\ r.value = SumSeq(Values(call.word)) - TopSum(Values(call.word), call.jokersUsed)
      /\ 0 <= r.value
      /\ r.value <= SumSeq(Values(call.word))

\* a word with a letter outside the table, part of it laid with wildcards
C5_Witness ==
  \E r \in Range(ret) :
    /\ call.fn = "scoreWord" /\ r.path = "worker"
    /\ call.jokersUsed >= 1 /\ call.jokersUsed < Len(call.word)
    /\ "Q" \in Range(call.word)
    /\ 0 < r.value /\ r.value < SumSeq(Values(call.word))

(***************************************************************************)
(* C6: matchesBoardPattern(word, pattern) is true exactly when the whole   *)
(* word has the shape of the pattern (a letter matches itself, "." one     *)
(* character, "*" any run, spaces ignored); a pattern with neither "." nor *)
(* "*" matches only the word equal to it.                                  *)
(***************************************************************************)
Literals(pattern) == SelectSeq(pattern, LAMBDA ch : ch # " ")

SymbolCount(pattern) ==
  Cardinality({i \in DOMAIN pattern : pattern[i] = "." \/ pattern[i] = "*"})

MatchesAsRead(value, word, pattern) ==
  /\ value <=> HasShape(word, pattern)
  /\ SymbolCount(pattern) = 0 => (value <=> word = Literals(pattern))

\* the statement as claimed, for every pattern
C6_AnyPattern ==
  \A r \in Range(ret) :
    call.fn = "matchesBoardPattern" => MatchesAsRead(r.value, call.word, call.pattern)

\* the statement for patterns of at most 50 characters and 15 "."/"*" symbols
C6_WithinLimits ==
  \A r \in Range(ret) :
    (/\ call.fn = "matchesBoardPattern"
     /\ Len(call.pattern) <= MaxPatternLength
     /\ SymbolCount(call.pattern) <= MaxPatternWildcards) =>
      MatchesAsRead(r.value, call.word, call.pattern)

\* a match of a pattern made of a letter, a "." and a "*"
C6_Witness ==
  \E r \in Range(ret) :
    /\ call.fn = "matchesBoardPattern" /\ r.value
    /\ {"A", ".", "*"} \subseteq Range(call.pattern)
    /\ Len(call.word) = MaxWordLen

(***************************************************************************)
(* C7: with sortBy = score the results are ordered by score descending,    *)
(* then fewer wildcards first, then higher score/length ratio first.       *)
(***************************************************************************)
\* a may stand before b: the ratios are compared by cross-multiplication
ScorePrecedes(a, b) ==
  \/ a.score > b.score
  \/ a.score = b.score /\ a.usedJokers < b.usedJokers
  \/ /\ a.score = b.score /\ a.usedJokers = b.usedJokers
     /\ a.score * b.length >= b.score * a.length

ScoreOrdered(results) ==
  \A i, j \in DOMAIN results : i < j => ScorePrecedes(results[i], results[j])

C7_ScoreOrder ==
  filters.sortBy = "score" =>
    \A r \in Range(mainResponse) \cup Range(workerResponse) : ScoreOrdered(r.results)

\* two results of equal score and wildcard count, the shorter one moved to the front
C7_Witness ==
  /\ filters.sortBy = "score"
  /\ \E r \in Range(workerResponse) :
       /\ Len(r.results) = 2
       /\ r.results[1].score = r.results[2].score
       /\ r.results[1].usedJokers = r.results[2].usedJokers
       /\ r.results[1].length < r.results[2].length
       /\ workerWordlist = <<r.results[2].word, r.results[1].word>>

(***************************************************************************)
(* C8: with sortBy = alpha the results are in lexicographic order by the   *)
(* position of each symbol in the alphabet A-Z, AE, OE, AA; a proper       *)
(* prefix of a word comes before it.                                       *)
(***************************************************************************)
Position(ch) ==
  CASE ch = "AE" -> 27
    [] ch = "OE" -> 28
    [] ch = "AA" -> 29
    [] OTHER -> CodeUnit(ch) - 64

AlphaPrecedes(a, b) ==
  \E k \in 1..(Len(a) + 1) :
    /\ \A m \in 1..(k - 1) : m <= Len(b) /\ a[m] = b[m]
    /\ \/ k = Len(a) + 1 /\ Len(b) >= k
       \/ k <= Len(a) /\ k <= Len(b) /\ Position(a[k]) < Position(b[k])

C8_AlphaOrder ==
  filters.sortBy = "alpha" =>
    \A r \in Range(mainResponse) \cup Range(workerResponse) :
      \A i, j \in DOMAIN r.results :
        i < j => AlphaPrecedes(r.results[i].word, r.results[j].word)

\* a word in AE put before a word in AA, and a word in Z before both kinds
C8_Witness ==
  /\ filters.sortBy = "alpha"
  /\ \E r \in Range(mainResponse) :
       /\ Len(r.results) = 2
       /\ r.results[1].word[1] = "AE" /\ r.results[2].word[1] = "AA"
       /\ wordlist = <<r.results[2].word, r.results[1].word>>
  /\ \E r \in Range(workerResponse) : Len(r.results) = 2

(***************************************************************************)
(* C9: with sortBy absent or unrecognised the results are ordered as with  *)
(* sortBy = score, both tie-breaks included.                               *)
(***************************************************************************)
C9_DefaultAsScore ==
  filters.sortBy \notin {"score", "length", "alpha"} =>
    \A r \in Range(mainResponse) \cup Range(workerResponse) : ScoreOrdered(r.results)

(***************************************************************************)
(* C10: the length filter by mode: all (or absent) keeps lengths 2..15,    *)
(* exact n keeps length n, range keeps minLength..maxLength, whatever the  *)
(* pattern and the sort setting.                                           *)
(***************************************************************************)
LengthRestricted(n, f) ==
  /\ f.lengthMode \in {"", "all"} => n >= 2 /\ n <= 15
  /\ (f.lengthMode = "exact" /\ f.exactLength # <<>>) => n = f.exactLength[1]
  /\ (f.lengthMode = "range" /\ f.minLength # <<>>) => n >= f.minLength[1]
  /\ (f.lengthMode = "range" /\ f.maxLength # <<>>) => n <= f.maxLength[1]

C10_LengthFilter ==
  \A e \in Entries(mainResponse) \cup Entries(workerResponse) :
    LengthRestricted(Len(e.word), filters)

\* mode all: the 15-letter word is returned, the formable 16-letter word is not
C10_Witness ==
  /\ filters.lengthMode = "all" /\ filters.boardPattern # <<>>
  /\ Range(wordlist) = {Run("A", MaxWordLength), Run("A", MaxWordLength + 1)}
  /\ ResultWords(mainResponse) = {Run("A", MaxWordLength)}
  /\ ResultWords(workerResponse) = {Run("A", MaxWordLength)}
  /\ MinWildcards(Run("A", MaxWordLength + 1), MainRack) <= MainRack.wildcards

(***************************************************************************)
(* C11: the worker's handleSearch and the main thread's searchWords return *)
(* the same result list for the same dictionary, rack and filters: the     *)
(* same words with the same score, length and usedJokers, in the same      *)
(* order.                                                                  *)
(***************************************************************************)
C11_SamePaths ==
  \A m \in Range(mainResponse) : \A w \in Range(workerResponse) :
    m.results = w.results

(***************************************************************************)
(* C12: for every search request message the worker receives it posts      *)
(* exactly one searchResult response: none is left unanswered, none is     *)
(* answered more than once.                                                *)
(***************************************************************************)
\* the requests processed so far and the responses posted so far pair up
C12_OneResponseEach == Len(outbox) = handled

(***************************************************************************)
(* C16: a rack string that fails validation, handed to searchWords or to   *)
(* the worker's handleSearch, is reported as a validation failure: no      *)
(* dictionary scan is made for it and no result list comes back.           *)
(***************************************************************************)
C16_InvalidRackRejected ==
  ~isValidInput(lettersString) => mainResponse = <<>> /\ workerResponse = <<>>

(***************************************************************************)
(* C17: when the filter configuration has an exact, minimum or maximum     *)
(* length outside [2,15], or a minimum above the maximum, handleSearch     *)
(* reports an error before any dictionary scan: no search message is       *)
(* posted to the worker and searchWords is not called for the request.     *)
(***************************************************************************)
BadLength(n) == n # <<>> /\ (n[1] < 2 \/ n[1] > 15)

BadLengths(f) ==
  \/ BadLength(f.exactLength)
  \/ BadLength(f.minLength)
  \/ BadLength(f.maxLength)
  \/ f.minLength # <<>> /\ f.maxLength # <<>> /\ f.minLength[1] > f.maxLength[1]

ValidationErrors ==
  {"noLetters", "tooManyLetters", "invalidLetters", "invalidPattern",
   "exactLength", "minLength", "maxLength", "minAboveMax"}

C17_ValidatedFirst ==
  [][(clicks' = clicks + 1 /\ BadLengths(getFilters(dom'))) =>
       /\ display'.error \in ValidationErrors
       /\ pending' = pending
       /\ inbox' = inbox
       /\ mainResponse' = mainResponse]_vars

\* a minimum above the maximum was reported and nothing was started
C17_Witness ==
  /\ display.error = "minAboveMax"
  /\ BadLengths(getFilters(dom))
  /\ pending = <<>> /\ inbox = <<>> /\ mainResponse = <<>>

(***************************************************************************)
(* C13: once the worker has failed to initialize (Worker unsupported, the  *)
(* constructor threw, or the worker reported an error event), every search *)
(* started afterwards is run by searchWords in the caller's context and    *)
(* its results are displayed; the failure is never shown as an error.      *)
(***************************************************************************)
\* the step resumes the oldest suspended handleSearch invocation
Resumes == pending # <<>> /\ pending' = Tail(pending)

SynchronousResult ==
  searchWords(wordlist, Head(pending).lettersString, Head(pending).filters)

C13_Fallback ==
  [][~useWorker =>
       /\ ~useWorker'
       /\ inbox' = inbox
       /\ Resumes =>
            /\ mainResponse' = <<SynchronousResult>>
            /\ ~display'.loading
            /\ SynchronousResult.results # <<>> =>
                 display'.results = <<SynchronousResult.results>>
       /\ display'.error \in ValidationErrors \cup {"", "noResults"}]_vars

\* the worker answered a search, then failed; the next search was run by
\* searchWords and its results are on the page
C13_Witness ==
  /\ ~useWorker /\ searchWorker
  /\ outbox # <<>>
  /\ mainResponse # <<>>
  /\ \E r \in Range(mainResponse) : r.results # <<>> /\ display.results = <<r.results>>
  /\ display.error = ""

(***************************************************************************)
(* C14: on every search entry point (handleSearch of the page, handleSearch *)
(* of the worker, searchWords) a rack of 15 characters is accepted and     *)
(* searched and a rack of 16 characters is rejected: no result list is     *)
(* produced from it.                                                       *)
(***************************************************************************)
C14_RackLimit ==
  /\ Len(lettersString) > 15 => mainResponse = <<>> /\ workerResponse = <<>>
  /\ \A p \in Range(pending) \cup Range(inbox) : Len(p.lettersString) <= 15

(***************************************************************************)
(* C15: a pattern of exactly 50 characters after trimming, and a pattern   *)
(* with exactly 15 "."/"*" symbols, is matched as any pattern is; a        *)
(* pattern of 51 characters, or with 16 such symbols, matches no word (the *)
(* call returns false and throws nothing).                                 *)
(***************************************************************************)
AtPatternLimit(pattern) ==
  /\ Len(pattern) <= MaxPatternLength
  /\ SymbolCount(pattern) <= MaxPatternWildcards
  /\ Len(pattern) = MaxPatternLength \/ SymbolCount(pattern) = MaxPatternWildcards

OverPatternLimit(pattern) ==
  \/ Len(pattern) > MaxPatternLength
  \/ SymbolCount(pattern) > MaxPatternWildcards

Reorderings(words) ==
  {[i \in DOMAIN words |-> words[f[i]]] : f \in Permutations(DOMAIN words)}

C19_OrderIrrelevant ==
  filters.sortBy \in {"score", "length", "alpha"} =>
    /\ \A r \in Range(mainResponse) : \A other \in Reorderings(wordlist) :
         searchWords(other, lettersString, filters).results = r.results
    /\ \A r \in Range(workerResponse) : \A other \in Reorderings(wordlist) :
         workerSearch(handleLoadWordlist(other), lettersString, filters).results
           = r.results

(***************************************************************************)
(* C20: parseLetters counts each "?", "_" and "*" as one wildcard, skips   *)
(* spaces (a space changes neither the wildcard count nor a letter count)  *)
(* and counts every other character under its own letter.                  *)
(***************************************************************************)
JokerSymbols == {"?", "_", "*"}
DANISH_LETTERS == Range(DANISH_ALPHABET)

\* the number of characters of str that upper-case to a member of S
Occurrences(str, S) == Cardinality({i \in DOMAIN str : UpperChar(str[i]) \in S})

C20_ParseLetters ==
  \A r \in Range(ret) :
    call.fn = "parseLetters" =>
      /\ r.value.wildcards = Occurrences(call.str, JokerSymbols)
      /\ \A c \in DANISH_LETTERS :
           Get(r.value.letterCounts, c) = Occurrences(call.str, {c})
      /\ DOMAIN r.value.letterCounts \subseteq DANISH_LETTERS

(***************************************************************************)
(* C21: scoreWord(word, k) with k outside [0, length of the word] (k       *)
(* negative, or k above the length) has no wildcard effect: it returns the *)
(* full sum of the word's letter values, as scoreWord(word, 0) does.       *)
(***************************************************************************)
C21_OutsideRangeNoEffect ==
  \A r \in Range(ret) :
    (call.fn = "scoreWord" /\ call.jokersUsed \notin 0..Len(call.word)) =>
      r.value = SumSeq(Values(call.word))

(***************************************************************************)
(* C22: a search submitted through the page with a board pattern that uses *)
(* "." passes the page's input validation and goes on to the dictionary    *)
(* scan; it is not rejected as holding invalid characters.                 *)
(***************************************************************************)
\* the form holds an acceptable rack and acceptable lengths, and a "." pattern
DotPatternForm(d) ==
  /\ "." \in Range(d.pattern)
  /\ trim(d.letters) # <<>>
  /\ Len(trim(d.letters)) <= 15
  /\ \A i \in DOMAIN d.letters :
       UpperChar(d.letters[i]) \in DANISH_LETTERS \cup JokerSymbols
  /\ ~BadLengths(getFilters(d))

C22_DotPatternSearched ==
  [][(clicks' = clicks + 1 /\ DotPatternForm(dom')) =>
       /\ display'.error = ""
       /\ pending' = Append(pending, Request(dom'))]_vars

(***************************************************************************)
(* C23: a word whose every letter is fully absorbed by the literal letters *)
(* of the board pattern needs no wildcard, is not counted as having used a *)
(* rack letter and is never returned, even when the rack also holds those  *)
(* same letters.                                                           *)
(***************************************************************************)
FullyAbsorbed(word) == \A c \in Range(word) : CountIn(word, c) <= BoardCount(c)

C23_AbsorbedNeverReturned ==
  /\ \A e \in Entries(mainResponse) \cup Entries(workerResponse) :
       ~FullyAbsorbed(e.word)
  /\ \A w \in Range(wordlist) :
       FullyAbsorbed(w) =>
         LET form == Formability(w, MainRack,
                                 buildExtraLettersFromPattern(filters.boardPattern))
             workerForm ==
               workerFormability(w, WorkerRack,
                                 workerBuildExtraLettersFromPattern(filters.boardPattern))
         IN /\ form.canForm /\ form.wildcardsUsed = 0 /\ ~form.usedUserLetters
            /\ workerForm.canForm /\ workerForm.wildcardsUsed = 0
            /\ ~workerForm.usedUserLetters

\* the dictionary word is spelled out by the pattern and held by the rack as
\* well; it has the pattern's shape and an allowed length, and is not returned
C23_Witness ==
  /\ mainResponse # <<>> /\ workerResponse # <<>>
  /\ \E w \in Range(wordlist) :
       /\ FullyAbsorbed(w)
       /\ \A c \in Range(w) : Get(MainRack.letterCounts, c) >= CountIn(w, c)
       /\ HasShape(w, filters.boardPattern)
       /\ LengthAllowed(Len(w), filters)
       /\ w \notin ResultWords(mainResponse) \cup ResultWords(workerResponse)

(***************************************************************************)
(* C25: for every filter configuration that validateFilters accepts (mode  *)
(* exact with no exactLength given and an unrecognised mode included),     *)
(* every word returned by a search has a length between 2 and 15.          *)
(***************************************************************************)
C25_LengthWithinLimits ==
  validateFilters(filters).valid =>
    \A e \in Entries(mainResponse) \cup Entries(workerResponse) :
      Len(e.word) >= 2 /\ Len(e.word) <= 15

(***************************************************************************)
(* C29: with sortBy = length the result list is ordered by word length     *)
(* descending and, among words of equal length, by score descending.       *)
(***************************************************************************)
LengthPrecedes(a, b) ==
  \/ Len(a.word) > Len(b.word)
  \/ Len(a.word) = Len(b.word) /\ a.score >= b.score

C29_LengthOrder ==
  filters.sortBy = "length" =>
    \A r \in Range(mainResponse) \cup Range(workerResponse) :
      \A i, j \in DOMAIN r.results :
        i < j => LengthPrecedes(r.results[i], r.results[j])

\* two words of equal length: the one of higher score, second in the
\* dictionary, was moved to the front
C29_Witness ==
  /\ filters.sortBy = "length"
  /\ \E r \in Range(mainResponse) :
       /\ Len(r.results) = 2
       /\ Len(r.results[1].word) = Len(r.results[2].word)
       /\ r.results[1].score > r.results[2].score
       /\ wordlist = <<r.results[2].word, r.results[1].word>>
  /\ \E r \in Range(workerResponse) :
       Len(r.results) = 2 /\ r.results[1].score > r.results[2].score

(***************************************************************************)
(* C24: the result list never holds two entries whose words are equal      *)
(* after upper-casing and trimming, even when the dictionary supplies the  *)
(* same word more than once or in different letter case; and totalFound is *)
(* the number of entries of the result list.                               *)
(***************************************************************************)
SameWord(a, b) == trim(toUpperCase(a)) = trim(toUpperCase(b))

C24_NoDuplicates ==
  \A r \in Range(mainResponse) \cup Range(workerResponse) :
    /\ \A i, j \in DOMAIN r.results :
         i # j => ~SameWord(r.results[i].word, r.results[j].word)
    /\ r.totalFound = Cardinality(DOMAIN r.results)

\* the file holds one word in two spellings that the loader keeps apart;
\* both paths return it once
C24_Witness ==
  /\ Len(wordlistFile) = 2 /\ Len(wordlist) = 2
  /\ SameWord(wordlistFile[1], wordlistFile[2])
  /\ \E r \in Range(mainResponse) : Len(r.results) = 1
  /\ \E r \in Range(workerResponse) : Len(r.results) = 1

(***************************************************************************)
(* C30: after any sequence of saveRecentSearch calls the stored list holds *)
(* at most 5 entries, no two entries have the same pair (letters,          *)
(* boardPattern), the entry of the latest saved search is first, and every *)
(* entry has letters of at most 15 characters and a board pattern of at    *)
(* most 50 characters.                                                     *)
(***************************************************************************)
AllowedSymbols == DANISH_LETTERS \cup JokerSymbols \cup {" "}

\* the call is one that saveRecentSearch stores
Storable(str, pattern) ==
  /\ str # <<>> /\ Len(str) <= 15
  /\ \A i \in DOMAIN str : UpperChar(str[i]) \in AllowedSymbols
  /\ \A i \in DOMAIN pattern : UpperChar(pattern[i]) \in AllowedSymbols

C30_RecentSearches ==
  /\ Len(recentSearches) <= 5
  /\ \A i, j \in DOMAIN recentSearches :
       i # j => \/ recentSearches[i].letters # recentSearches[j].letters
                \/ recentSearches[i].boardPattern # recentSearches[j].boardPattern
  /\ \A i \in DOMAIN recentSearches :
       /\ Len(recentSearches[i].letters) <= 15
       /\ Len(recentSearches[i].boardPattern) <= 50
  /\ (call.fn = "saveRecentSearch" /\ Storable(call.letters, call.boardPattern)) =>
       /\ recentSearches # <<>>
       /\ recentSearches[1].letters = call.letters
       /\ \A i \in DOMAIN recentSearches[1].boardPattern :
            recentSearches[1].boardPattern[i] = call.boardPattern[i]
       /\ Len(recentSearches[1].boardPattern) = Len(call.boardPattern)
            \/ Len(recentSearches[1].boardPattern) = 50

\* the list is full; the last call saved letters of 15 characters with a
\* pattern of 51 characters, stored cut to 50, in front of an entry of the
\* same letters without a pattern
C30_Witness ==
  /\ Len(recentSearches) = 5
  /\ call.fn = "saveRecentSearch"
  /\ Len(call.letters) = 15 /\ Len(call.boardPattern) = 51
  /\ recentSearches[1].letters = call.letters
  /\ Len(recentSearches[1].boardPattern) = 50
  /\ \E i \in 2..5 : /\ recentSearches[i].letters = call.letters
                       /\ recentSearches[i].boardPattern = <<>>

(***************************************************************************)
(* C26: at most one search request is outstanding at the worker: under     *)
(* every interleaving of user events the page never posts a second search  *)
(* message before the response to the previous one has been handled.       *)
(***************************************************************************)
C26_OneOutstanding ==
  [][Len(inbox') > Len(inbox) => delivered = Len(inbox)]_vars

(***************************************************************************)
(* C27: every search that handleSearch starts eventually ends with the     *)
(* loading indicator hidden and the search button enabled again, on the    *)
(* worker path and on the main-thread path, also when the worker raises an *)
(* error.  As a property of states: while the loading indicator is shown,  *)
(* a step that leads to hiding it is still to come.                        *)
(***************************************************************************)
\* a handleSearch invocation is suspended, or a request or a response is
\* waiting in a message queue
SearchInProgress ==
  pending # <<>> \/ handled < Len(inbox) \/ delivered < Len(outbox)

C27_LoadingEnds == display.loading => SearchInProgress

(***************************************************************************)
(* C28: when a worker response is handled, what is displayed and what is   *)
(* saved belong to the same request: the letters and the board pattern of  *)
(* the recent-search entry are those of the request that produced the      *)
(* displayed results, whatever was edited or searched in between.          *)
(***************************************************************************)
\* the step handles the next worker response, which holds results; every
\* request so far was answered, so it answers the request of the same index
HandlesResults ==
  /\ delivered' = delivered + 1
  /\ Len(outbox) = handled
  /\ outbox[delivered + 1].results # <<>>

C28_SavedIsDisplayed ==
  [][HandlesResults =>
       /\ display'.results = <<outbox[delivered + 1].results>>
       /\ recentSearches' # <<>>
       /\ recentSearches'[1].letters = inbox[delivered + 1].lettersString
       /\ recentSearches'[1].boardPattern =
            inbox[delivered + 1].filters.boardPattern]_vars

====
